---- MODULE Spec2Model ----
(***************************************************************************)
(* Boolean Expression Solver: the recursive descent evaluator and the      *)
(* truth-table generator of solver.c (command-line host) and server.c      *)
(* (CGI host).                                                             *)
(*                                                                         *)
(* An expression is a NUL-terminated C string, modelled as the sequence of *)
(* its bytes.  The sources are UTF-8 text built with "gcc -o solver        *)
(* solver.c" (solver.c:17-18, server.c:17-18), so the middle dot of the    *)
(* text is the two bytes 0xC2 0xB7 and the character constant the parser   *)
(* compares against is gcc's two-character constant.                       *)
(*                                                                         *)
(* Spec runs whole calls of the entry points, and generateTruthTable of    *)
(* script.js, the page in front of the CGI host.  SeqSpec counts the calls *)
(* of a sequence.  ParseSpec and FairParseSpec run one evaluation step by  *)
(* step, ConcSpec two of them in two threads that share g_var_mapping.     *)
(***************************************************************************)
EXTENDS Integers, Sequences, FiniteSets, TLC

(***************************************************************************)
(* Bounds of the model.                                                    *)
(***************************************************************************)
MaxLen == 3        \* longest text enumerated token by token

MaxCalls == 2      \* longest sequence of calls that is counted

(***************************************************************************)
(* Characters (ASCII codes) the sources name.                              *)
(***************************************************************************)
NUL == 0
HT == 9
CR == 13
SP == 32
BANG == 33
DOLLAR == 36
LPAREN == 40
RPAREN == 41
PLUS == 43
ZERO == 48
ONE == 49
TWO == 50
NINE == 57
UPPER_A == 65
UPPER_B == 66
UPPER_C == 67
UPPER_Z == 90
LOWER_A == 97
LOWER_Z == 122
DOT_LEAD == 194    \* 0xC2, first byte of the UTF-8 middle dot
DOT_TAIL == 183    \* 0xB7, second byte of the UTF-8 middle dot
CHAR_RANGE == 256  \* int g_var_mapping[256], and the values of a byte
MAX_VARS == 100    \* char vars[100]
INT_BITS == 32     \* width of int total_rows

Hosts == {"solver", "server"}

(***************************************************************************)
(* '·' in the source is a character constant of two bytes; gcc gives it    *)
(* the int value (0xC2 << 8) | 0xB7 and warns -Wmultichar.                 *)
(***************************************************************************)
MIDDLE_DOT == DOT_LEAD * 256 + DOT_TAIL

(***************************************************************************)
(* The <ctype.h> classes in the "C" locale (no setlocale call is made).    *)
(***************************************************************************)
isspace(c) == c = SP \/ (c >= HT /\ c <= CR)

isdigit(c) == c >= ZERO /\ c <= NINE

isalpha(c) == (c >= UPPER_A /\ c <= UPPER_Z) \/ (c >= LOWER_A /\ c <= LOWER_Z)

(***************************************************************************)
(* Memory read through the cursor: buf is the text, its terminating NUL    *)
(* and the bytes that follow it in the buffer; p is the 0-based cursor.    *)
(* char is signed in the build, so bytes above 127 read as negative ints.  *)
(***************************************************************************)
Deref(buf, p) ==
    LET b == IF p < Len(buf) THEN buf[p + 1] ELSE NUL
    IN  IF b >= 128 THEN b - CHAR_RANGE ELSE b

Buffer(text, after) == text \o <<NUL>> \o after

RECURSIVE skip_whitespace(_, _)
skip_whitespace(buf, p) ==
    IF Deref(buf, p) # NUL /\ isspace(Deref(buf, p))
    THEN skip_whitespace(buf, p + 1)
    ELSE p

(***************************************************************************)
(* The value computations of the three operators.                          *)
(***************************************************************************)
\* OrValue with the arms of the conditional exchanged.
OrValue_ArmsExchanged(value, term_value) ==
    IF value # 0 \/ term_value # 0 THEN 0 ELSE 1

OrValue(value, term_value) == IF value # 0 \/ term_value # 0 THEN 1 ELSE 0

AndValue(value, factor_value) == IF value # 0 /\ factor_value # 0 THEN 1 ELSE 0

NotValue(factor_value) == IF factor_value = 0 THEN 1 ELSE 0

(***************************************************************************)
(* The parser.  Every function returns the value it computed, the cursor   *)
(* it leaves and the number of messages it wrote to stderr.                *)
(*                                                                         *)
(* Only(S) is the element of a one-element set.  The parser binds each     *)
(* intermediate result as  Only({F(t) : t \in {E}}),  which evaluates E    *)
(* once, where a LET inside a recursive definition evaluates it at every   *)
(* use.                                                                    *)
(***************************************************************************)
Only(S) == CHOOSE x \in S : TRUE

Parsed(value, p, errs) == [value |-> value, pos |-> p, errs |-> errs]

\* skip_whitespace(s) after a callee returned r
Skipped(buf, r) == Parsed(r.value, skip_whitespace(buf, r.pos), r.errs)

\* value = (value || term_value) ? 1 : 0; skip_whitespace(s);
OrStep(buf, acc, t) ==
    Parsed(OrValue(acc.value, t.value), skip_whitespace(buf, t.pos), acc.errs + t.errs)

\* value = (value && factor_value) ? 1 : 0; skip_whitespace(s);
AndStep(buf, acc, f) ==
    Parsed(AndValue(acc.value, f.value), skip_whitespace(buf, f.pos), acc.errs + f.errs)

\* value = (!factor_value) ? 1 : 0;
Negated(f) == Parsed(NotValue(f.value), f.pos, f.errs)

\* Grouped with the assignment "value =" lost: the group's value stays 0.
Grouped_LosesValue(buf, e) ==
    LET q == skip_whitespace(buf, e.pos)
    IN  IF Deref(buf, q) = RPAREN
        THEN Parsed(0, q + 1, e.errs)
        ELSE Parsed(0, q, e.errs + 1)

\* '(' expression ')': the value of the inner expression; a missing ')' is
\* written to stderr and the value is kept.
Grouped(buf, e) ==
    LET q == skip_whitespace(buf, e.pos)
    IN  IF Deref(buf, q) = RPAREN
        THEN Parsed(e.value, q + 1, e.errs)
        ELSE Parsed(e.value, q, e.errs + 1)

\* isdigit branch: value = **s - '0'
Literal(c) == c - ZERO

\* isalpha branch: value = g_var_mapping[(int)var]
Lookup(map, var) == map[var]

\* No branch taken: value stays 0.  solver.c steps over the character,
\* server.c has no else branch and leaves the cursor.
Unrecognized(host, p) ==
    IF host = "solver" THEN Parsed(0, p + 1, 0) ELSE Parsed(0, p, 0)

RECURSIVE parse_expression(_, _, _, _)
RECURSIVE expression_loop(_, _, _, _)
RECURSIVE parse_term(_, _, _, _)
RECURSIVE term_loop(_, _, _, _)
RECURSIVE parse_factor(_, _, _, _)
RECURSIVE factor_at(_, _, _, _)

\* while (**s == '+') { (*s)++; skip_whitespace(s); term_value = parse_term(s); ... }
expression_loop(host, buf, map, acc) ==
    IF Deref(buf, acc.pos) = PLUS
    THEN Only({expression_loop(host, buf, map, next) :
               next \in {OrStep(buf, acc, t) :
                         t \in {parse_term(host, buf, map,
                                           skip_whitespace(buf, acc.pos + 1))}}})
    ELSE acc

\* int value = parse_term(s); skip_whitespace(s); while ...; return value;
parse_expression(host, buf, map, p) ==
    Only({expression_loop(host, buf, map, acc) :
          acc \in {Skipped(buf, t) : t \in {parse_term(host, buf, map, p)}}})

\* while (**s == '·') { (*s)++; skip_whitespace(s); factor_value = parse_factor(s); ... }
term_loop(host, buf, map, acc) ==
    IF Deref(buf, acc.pos) = MIDDLE_DOT
    THEN Only({term_loop(host, buf, map, next) :
               next \in {AndStep(buf, acc, f) :
                         f \in {parse_factor(host, buf, map,
                                             skip_whitespace(buf, acc.pos + 1))}}})
    ELSE acc

\* int value = parse_factor(s); skip_whitespace(s); while ...; return value;
parse_term(host, buf, map, p) ==
    Only({term_loop(host, buf, map, acc) :
          acc \in {Skipped(buf, f) : f \in {parse_factor(host, buf, map, p)}}})

\* The branches of parse_factor, the cursor p standing on character c.
factor_at(host, buf, map, p) ==
    Only({IF c = BANG
          THEN Only({Negated(f) : f \in {parse_factor(host, buf, map, p + 1)}})
          ELSE IF c = LPAREN
          THEN Only({Grouped(buf, e) : e \in {parse_expression(host, buf, map, p + 1)}})
          ELSE IF isdigit(c)
          THEN Parsed(Literal(c), p + 1, 0)
          ELSE IF isalpha(c)
          THEN Parsed(Lookup(map, c), p + 1, 0)
          ELSE Unrecognized(host, p) :
          c \in {Deref(buf, p)}})

\* skip_whitespace(s); int value = 0; if ... else if ...; return value;
parse_factor(host, buf, map, p0) ==
    Only({factor_at(host, buf, map, p) : p \in {skip_whitespace(buf, p0)}})

(***************************************************************************)
(* The variable table.  g_var_mapping has an entry for each of the 256     *)
(* character codes; the parser reads it only in the isalpha branch and the *)
(* table generator writes only at letters, so the model keeps the entries  *)
(* of the 52 letters.                                                      *)
(***************************************************************************)
LetterCodes == {c \in 0 .. (CHAR_RANGE - 1) : isalpha(c)}

AllTrue == [c \in LetterCodes |-> 1]

AllFalse == [c \in LetterCodes |-> 0]

\* SetDefault with the loop left out: the table stays as it was found.
SetDefault_Skipped(table) == table

\* for (int i = 0; i < 256; i++) g_var_mapping[i] = 1;
SetDefault(table) == [c \in DOMAIN table |-> 1]

\* Memcpy with the size given as 256 bytes in place of sizeof(g_var_mapping):
\* only the 64 entries below 'A' are copied.
Memcpy_FewerBytes(table, mapping) ==
    [c \in DOMAIN table |-> IF c < CHAR_RANGE \div 4 THEN mapping[c] ELSE table[c]]

\* memcpy(g_var_mapping, mapping, sizeof(g_var_mapping));
Memcpy(table, mapping) == [c \in DOMAIN table |-> mapping[c]]

(***************************************************************************)
(* The two entry points of the evaluator.  Each overwrites the table it    *)
(* finds, then parses from the start of the text and returns the int the   *)
(* parse computed.                                                         *)
(***************************************************************************)
Returned(r, table) ==
    [result |-> r.value, mapping |-> table, errs |-> r.errs, pos |-> r.pos]

evaluate_boolean_expression(host, buf, table) ==
    LET defaults == SetDefault(table)
    IN  Returned(parse_expression(host, buf, defaults, 0), defaults)

evaluate_expr_with_mapping(host, buf, table, mapping) ==
    LET copied == Memcpy(table, mapping)
    IN  Returned(parse_expression(host, buf, copied, 0), copied)

(***************************************************************************)
(* generate_truth_table: the variable scan, the row count and the rows.    *)
(***************************************************************************)
\* AlreadyPresent comparing letters without regard to case.
AlreadyPresent_IgnoringCase(found, ch) ==
    \E i \in 1 .. Len(found) :
        found[i] = ch \/ found[i] = ch + (LOWER_A - UPPER_A) \/ found[i] + (LOWER_A - UPPER_A) = ch

\* for (i = 0; i < var_count; i++) if (vars[i] == ch) already_present = 1
AlreadyPresent(found, ch) == \E i \in 1 .. Len(found) : found[i] = ch

\* for (p = expr; *p; p++) if (isalpha(*p)) ... vars[var_count++] = ch
RECURSIVE ScanVariables(_, _, _)
ScanVariables(buf, p, found) ==
    LET ch == Deref(buf, p)
    IN  IF ch = NUL
        THEN found
        ELSE IF isalpha(ch) /\ ~AlreadyPresent(found, ch) /\ Len(found) < MAX_VARS
        THEN ScanVariables(buf, p + 1, Append(found, ch))
        ELSE ScanVariables(buf, p + 1, found)

\* TotalRows as 2 * var_count in place of 1 << var_count.
TotalRows_Doubled(var_count) == {2 * var_count}

INT_MIN == -2147483647 - 1

\* int total_rows = 1 << var_count.  Shifting into the sign bit gives
\* INT_MIN; a shift count of the width of int or more is undefined: x86
\* masks the count to five bits, ARM shifts everything out.
TotalRows(var_count) ==
    IF var_count < INT_BITS - 1
    THEN {2 ^ var_count}
    ELSE IF var_count = INT_BITS - 1
    THEN {INT_MIN}
    ELSE {0, IF var_count % INT_BITS = INT_BITS - 1
             THEN INT_MIN
             ELSE 2 ^ (var_count % INT_BITS)}

\* (i >> (var_count - j - 1)) & 1, for i >= 0 and a shift count below the
\* width of int; j is 0-based as in the source.
RowBit(i, var_count, j) ==
    LET k == var_count - j - 1
    IN  IF k >= INT_BITS - 1 THEN 0 ELSE (i \div (2 ^ k)) % 2

\* for (j = 0; j < var_count; j++) mapping[(int)vars[j]] = RowBit
RECURSIVE AssignRow(_, _, _, _)
AssignRow(mapping, found, i, j) ==
    IF j >= Len(found)
    THEN mapping
    ELSE AssignRow([mapping EXCEPT ![found[j + 1]] = RowBit(i, Len(found), j)],
                   found, i, j + 1)

\* The cells printed for row i: solver.c prints mapping[vars[j]] right after
\* assigning it, server.c prints it after the whole row is assigned.
RowCells(host, found, i) ==
    LET whole == AssignRow(AllTrue, found, i, 0)
    IN  [j \in 1 .. Len(found) |->
            IF host = "solver" THEN RowBit(i, Len(found), j - 1) ELSE whole[found[j]]]

\* One iteration of the row loop: what is printed and what is left behind.
TableRow(host, buf, table, found, i) ==
    LET mapping == AssignRow(AllTrue, found, i, 0)
        r == evaluate_expr_with_mapping(host, buf, table, mapping)
    IN  [i |-> i, cells |-> RowCells(host, found, i), result |-> r.result,
         mapping |-> r.mapping, errs |-> r.errs]

\* for (i = 0; i < total_rows; i++): the rows in the order they are printed
RECURSIVE TableRows(_, _, _, _, _, _)
TableRows(host, buf, table, found, total_rows, i) ==
    IF i < total_rows
    THEN Only({<<row>> \o TableRows(host, buf, row.mapping, found, total_rows, i + 1) :
               row \in {TableRow(host, buf, table, found, i)}})
    ELSE <<>>

(***************************************************************************)
(* generateTruthTable of script.js: the variable list and the row count.   *)
(* The page holds the text as a JavaScript string; its letters are the     *)
(* ASCII letters of the bytes, and the middle dot is no letter.            *)
(***************************************************************************)
\* expression.match(/[A-Za-z]/g): the letters in text order, <<>> for null
RECURSIVE varMatches(_, _)
varMatches(text, k) ==
    IF k > Len(text)
    THEN <<>>
    ELSE IF isalpha(text[k])
    THEN <<text[k]>> \o varMatches(text, k + 1)
    ELSE varMatches(text, k + 1)

\* Array.prototype.sort() without a comparator: ascending code units
RECURSIVE Sorted(_)
Sorted(S) ==
    IF S = {}
    THEN <<>>
    ELSE LET least == CHOOSE x \in S : \A y \in S : x <= y
         IN  <<least>> \o Sorted(S \ {least})

\* Array.from(new Set(varMatches)).sort()
ScriptVariables(text) ==
    LET matches == varMatches(text, 1)
    IN  Sorted({matches[k] : k \in 1 .. Len(matches)})

\* 1 << numVars on JavaScript's 32-bit integers: the shift count is taken
\* modulo 32.
ScriptNumRows(numVars) ==
    IF numVars % INT_BITS = INT_BITS - 1
    THEN INT_MIN
    ELSE 2 ^ (numVars % INT_BITS)

\* (i >> (numVars - j - 1)) & 1, for i >= 0; the shift count is taken
\* modulo 32 and a shift by 31 leaves only the sign bit.
ScriptRowBit(i, numVars, j) ==
    LET k == (numVars - j - 1) % INT_BITS
    IN  IF k = INT_BITS - 1 THEN 0 ELSE (i \div (2 ^ k)) % 2

\* for (let i = 0; i < numRows; i++): the variable cells of each row.  The
\* Result cell is what the browser's eval() makes of the rewritten text and
\* is not part of this model.
ScriptRows(variables) ==
    LET numVars == Len(variables)
        numRows == ScriptNumRows(numVars)
    IN  [k \in 1 .. (IF numRows > 0 THEN numRows ELSE 0) |->
            [i |-> k - 1,
             cells |-> [j \in 1 .. numVars |-> ScriptRowBit(k - 1, numVars, j - 1)]]]

(***************************************************************************)
(* Input texts.  A text is a concatenation of tokens; the middle dot is    *)
(* one token of two bytes.                                                 *)
(***************************************************************************)
DOT == <<DOT_LEAD, DOT_TAIL>>

Tokens ==
    {<<SP>>, <<BANG>>, <<DOLLAR>>, <<LPAREN>>, <<RPAREN>>, <<PLUS>>,
     <<ZERO>>, <<ONE>>, <<UPPER_A>>, <<UPPER_B>>, <<LOWER_A>>, DOT}

RECURSIVE TokenTexts(_)
TokenTexts(n) ==
    IF n = 0
    THEN {<<>>}
    ELSE LET shorter == TokenTexts(n - 1)
         IN  shorter \cup {s \o t : s \in shorter, t \in Tokens}

\* "X · Y" and "X + Y" as the user interface writes them (script.js:12)
AndText(X, Y) == X \o <<SP>> \o DOT \o <<SP>> \o Y

OrText(X, Y) == X \o <<SP, PLUS, SP>> \o Y

NotText(X) == <<BANG>> \o X

GroupText(X) == <<LPAREN>> \o X \o <<RPAREN>>

A == <<UPPER_A>>

B == <<UPPER_B>>

C == <<UPPER_C>>

Factors ==
    {<<ZERO>>, <<ONE>>, A, B, NotText(A), NotText(<<ZERO>>),
     GroupText(OrText(A, B)), GroupText(<<ONE>>)}

\* The first n letters of A..Z a..z: a text with n distinct variables.
LetterRun(n) ==
    [k \in 1 .. n |-> IF k <= 26 THEN UPPER_A + k - 1 ELSE LOWER_A + k - 27]

\* "!(e1 · e2)" and "!e1 + !e2"
NotOfAnd(e1, e2) == NotText(GroupText(AndText(e1, e2)))

OrOfNots(e1, e2) == OrText(NotText(e1), NotText(e2))

Operands == {A, B, <<ZERO>>, <<ONE>>}

\* "!A + !(1)": the '+' loop, both descents of parse_factor
NotsAndGroup == OrOfNots(A, GroupText(<<ONE>>))

NamedTexts ==
    {AndText(X, Y) : X \in Factors, Y \in Factors}
    \cup {NotOfAnd(e1, e2) : e1 \in Operands, e2 \in Operands}
    \cup {OrOfNots(e1, e2) : e1 \in Operands, e2 \in Operands}
    \cup {OrText(A, AndText(B, C)),
          OrText(A, GroupText(AndText(B, C))),
          AndText(GroupText(OrText(A, B)), C),
          <<LPAREN>> \o AndText(A, B),
          <<UPPER_A, SP, DOLLAR, SP, UPPER_B>>,
          <<UPPER_A, SP, PLUS>>,
          <<TWO>>,
          OrText(A, B),
          OrText(<<LOWER_A>>, OrText(B, OrText(A, <<LOWER_A>>))),
          NotsAndGroup,
          LetterRun(INT_BITS - 1),
          LetterRun(INT_BITS)}

Texts == TokenTexts(MaxLen) \cup NamedTexts

\* What may follow the terminating NUL in the caller's buffer (solver.c:257
\* reads into an uninitialised array; an API caller passes any string).
AfterNul == {<<>>, <<PLUS, ONE>>}

\* The mappings a caller passes for a text: every letter true except a set
\* of the letters A, B, C that occur in it.
AssignedLetters == {UPPER_A, UPPER_B, UPPER_C}

MappingWithFalse(F) == [c \in LetterCodes |-> IF c \in F THEN 0 ELSE 1]

Occurring(text) == {text[k] : k \in 1 .. Len(text)}

Mappings(text) ==
    {MappingWithFalse(F) : F \in SUBSET (AssignedLetters \cap Occurring(text))}

(***************************************************************************)
(* State.                                                                  *)
(***************************************************************************)
VARIABLES
    host,            \* which program: "solver" or "server"
    expr,            \* the text handed to the evaluator
    after,           \* the bytes behind expr's NUL in its buffer
    g_var_mapping,   \* static int g_var_mapping[256]
    call,            \* the entry point that ran last, "none" before the first
    returned,        \* <<the int that call returned>>, <<>> for a void call
    stderr,          \* the number of messages that call wrote to stderr
    header,          \* the variable columns generate_truth_table printed
    rows,            \* the rows generate_truth_table printed, in order
    calls,           \* the calls made so far, where the specification counts them
    threads          \* the evaluations in progress, where they run step by step

vars ==
    <<host, expr, after, g_var_mapping, call, returned, stderr, header, rows,
      calls, threads>>

buffer == Buffer(expr, after)

\* static int g_var_mapping[256] = {0}; nothing has been called yet
Init ==
    /\ host \in Hosts
    /\ expr \in Texts
    /\ after \in (IF host = "solver" THEN AfterNul ELSE {<<>>})
    /\ g_var_mapping = AllFalse
    /\ call = "none"
    /\ returned = <<>>
    /\ stderr = 0
    /\ header = <<>>
    /\ rows = <<>>
    /\ calls = 0
    /\ threads = <<>>

\* int result = evaluate_boolean_expression(expression)
EvaluateBooleanExpression ==
    \E r \in {evaluate_boolean_expression(host, buffer, g_var_mapping)} :
        /\ call' = "evaluate_boolean_expression"
        /\ g_var_mapping' = r.mapping
        /\ returned' = <<r.result>>
        /\ stderr' = r.errs
        /\ header' = <<>>
        /\ rows' = <<>>
        /\ UNCHANGED <<host, expr, after>>

\* int result = evaluate_expr_with_mapping(expr, mapping)
EvaluateExprWithMapping(mapping) ==
    \E r \in {evaluate_expr_with_mapping(host, buffer, g_var_mapping, mapping)} :
        /\ call' = "evaluate_expr_with_mapping"
        /\ g_var_mapping' = r.mapping
        /\ returned' = <<r.result>>
        /\ stderr' = r.errs
        /\ header' = <<>>
        /\ rows' = <<>>
        /\ UNCHANGED <<host, expr, after>>

RECURSIVE SumErrs(_, _)
SumErrs(table, k) ==
    IF k > Len(table) THEN 0 ELSE table[k].errs + SumErrs(table, k + 1)

\* generate_truth_table(expression)
GenerateTruthTable ==
    \E found \in {ScanVariables(buffer, 0, <<>>)} :
        \E total_rows \in TotalRows(Len(found)) :
            \E table \in {TableRows(host, buffer, g_var_mapping, found, total_rows, 0)} :
                /\ call' = "generate_truth_table"
                /\ g_var_mapping' = IF table = <<>> THEN g_var_mapping
                                    ELSE table[Len(table)].mapping
                /\ returned' = <<>>
                /\ stderr' = SumErrs(table, 1)
                /\ header' = found
                /\ rows' = [k \in 1 .. Len(table) |->
                               [i |-> table[k].i, cells |-> table[k].cells,
                                result |-> table[k].result]]
                /\ UNCHANGED <<host, expr, after>>

\* generateTruthTable(expression) of the page in front of server.cgi; the
\* script runs in the browser and never touches the C program's table.
ScriptGenerateTruthTable ==
    /\ host = "server"
    /\ \E variables \in {ScriptVariables(expr)} :
           /\ call' = "generateTruthTable"
           /\ returned' = <<>>
           /\ stderr' = 0
           /\ header' = variables
           /\ rows' = IF variables = <<>> THEN <<>> ELSE ScriptRows(variables)
           /\ UNCHANGED <<host, expr, after, g_var_mapping>>

\* Whole calls, one after the other in one thread; no call is counted and
\* none runs step by step.
Next ==
    \/ EvaluateBooleanExpression /\ UNCHANGED <<calls, threads>>
    \/ /\ \E mapping \in Mappings(expr) : EvaluateExprWithMapping(mapping)
       /\ UNCHANGED <<calls, threads>>
    \/ GenerateTruthTable /\ UNCHANGED <<calls, threads>>
    \/ ScriptGenerateTruthTable /\ UNCHANGED <<calls, threads>>

Spec == Init /\ [][Next]_vars

(***************************************************************************)
(* Sequences of calls of the three entry points in one process, each call  *)
(* counted.  The row loop of generate_truth_table is such a sequence: one  *)
(* evaluate_expr_with_mapping after the other on the same table.           *)
(***************************************************************************)
ShortTexts == TokenTexts(MaxLen - 1) \cup NamedTexts

SeqInit == Init /\ expr \in ShortTexts

Counted ==
    /\ calls < MaxCalls
    /\ calls' = calls + 1
    /\ UNCHANGED threads

SeqNext ==
    \/ EvaluateBooleanExpression /\ Counted
    \/ /\ \E mapping \in Mappings(expr) : EvaluateExprWithMapping(mapping)
       /\ Counted
    \/ GenerateTruthTable /\ Counted

SeqSpec == SeqInit /\ [][SeqNext]_vars

(***************************************************************************)
(* The evaluator step by step.  A thread runs one call of an entry point:  *)
(* it has its own text, cursor and call stack, and shares g_var_mapping    *)
(* with every other thread of the process.  A step runs the function on    *)
(* top of the stack from where it stands to its next call or its return.   *)
(***************************************************************************)
\* ConsumePlus with the increment left out.
ConsumePlus_Forgotten(p) == p

\* (*s)++;  /* consume '+' */
ConsumePlus(p) == p + 1

\* A function in progress: where it stands and its local variable value.
Frame(fn, at, value) == [fn |-> fn, at |-> at, value |-> value]

\* A call of an entry point that has not started.
Called(text, behind, entry, mapping) ==
    [text |-> text, after |-> behind, entry |-> entry, mapping |-> mapping,
     pc |-> "called", p |-> 0, stack |-> <<>>, value |-> 0, errs |-> 0,
     result |-> 0]

Top(th) == th.stack[Len(th.stack)]

Callers(th) == SubSeq(th.stack, 1, Len(th.stack) - 1)

ThreadBuffer(th) == Buffer(th.text, th.after)

\* What the callee handed back: its value and the cursor it left.
HandedBack(th) == Parsed(th.value, th.p, 0)

\* return value; with the cursor at r.pos
ReturnFrom(th, r) ==
    [th EXCEPT !.stack = Callers(th), !.value = r.value, !.p = r.pos,
               !.errs = @ + r.errs]

\* The function on top calls fn with the cursor at q and resumes at label
\* at, its local variable holding value.
Descend(th, at, value, fn, q) ==
    [th EXCEPT !.stack = Callers(th) \o <<Frame(Top(th).fn, at, value),
                                          Frame(fn, "entry", 0)>>,
               !.p = q]

\* while (**s == '+') { (*s)++; skip_whitespace(s); ... parse_term(s)
ExpressionLoopTest(th, acc) ==
    IF Deref(ThreadBuffer(th), acc.pos) = PLUS
    THEN Descend(th, "rhs", acc.value, "parse_term",
                 skip_whitespace(ThreadBuffer(th), ConsumePlus(acc.pos)))
    ELSE ReturnFrom(th, acc)

\* parse_expression, resumed where its frame stands
ExpressionAt(th) ==
    CASE Top(th).at = "entry" ->
            Descend(th, "first", 0, "parse_term", th.p)
      [] Top(th).at = "first" ->
            ExpressionLoopTest(th, Skipped(ThreadBuffer(th), HandedBack(th)))
      [] Top(th).at = "rhs" ->
            ExpressionLoopTest(th, OrStep(ThreadBuffer(th),
                                          Parsed(Top(th).value, th.p, 0),
                                          HandedBack(th)))

\* while (**s == '·') { (*s)++; skip_whitespace(s); ... parse_factor(s)
TermLoopTest(th, acc) ==
    IF Deref(ThreadBuffer(th), acc.pos) = MIDDLE_DOT
    THEN Descend(th, "rhs", acc.value, "parse_factor",
                 skip_whitespace(ThreadBuffer(th), acc.pos + 1))
    ELSE ReturnFrom(th, acc)

\* parse_term, resumed where its frame stands
TermAt(th) ==
    CASE Top(th).at = "entry" ->
            Descend(th, "first", 0, "parse_factor", th.p)
      [] Top(th).at = "first" ->
            TermLoopTest(th, Skipped(ThreadBuffer(th), HandedBack(th)))
      [] Top(th).at = "rhs" ->
            TermLoopTest(th, AndStep(ThreadBuffer(th),
                                     Parsed(Top(th).value, th.p, 0),
                                     HandedBack(th)))

\* The branches of parse_factor after skip_whitespace left the cursor at q;
\* the isalpha branch reads the shared table as it is at this step.
FactorBranch(th, table, h, q) ==
    LET c == Deref(ThreadBuffer(th), q)
    IN  IF c = BANG
        THEN Descend(th, "negate", 0, "parse_factor", q + 1)
        ELSE IF c = LPAREN
        THEN Descend(th, "group", 0, "parse_expression", q + 1)
        ELSE IF isdigit(c)
        THEN ReturnFrom(th, Parsed(Literal(c), q + 1, 0))
        ELSE IF isalpha(c)
        THEN ReturnFrom(th, Parsed(Lookup(table, c), q + 1, 0))
        ELSE ReturnFrom(th, Unrecognized(h, q))

\* parse_factor, resumed where its frame stands
FactorAt(th, table, h) ==
    CASE Top(th).at = "entry" ->
            FactorBranch(th, table, h, skip_whitespace(ThreadBuffer(th), th.p))
      [] Top(th).at = "negate" ->
            ReturnFrom(th, Negated(HandedBack(th)))
      [] Top(th).at = "group" ->
            ReturnFrom(th, Grouped(ThreadBuffer(th), HandedBack(th)))

Running(t, fn) ==
    /\ threads[t].pc = "parsing"
    /\ threads[t].stack # <<>>
    /\ Top(threads[t]).fn = fn

Untouched == UNCHANGED <<host, expr, after, call, returned, stderr, header, rows, calls>>

\* The entry point writes the table, sets p = expr and calls parse_expression.
EnterEvaluate(t) ==
    /\ threads[t].pc = "called"
    /\ g_var_mapping' =
           IF threads[t].entry = "evaluate_boolean_expression"
           THEN SetDefault(g_var_mapping)
           ELSE Memcpy(g_var_mapping, threads[t].mapping)
    /\ threads' = [threads EXCEPT ![t] =
                       [@ EXCEPT !.pc = "parsing", !.p = 0,
                                 !.stack = <<Frame("parse_expression", "entry", 0)>>]]
    /\ Untouched

ParseExpressionStep(t) ==
    /\ Running(t, "parse_expression")
    /\ threads' = [threads EXCEPT ![t] = ExpressionAt(@)]
    /\ UNCHANGED g_var_mapping
    /\ Untouched

ParseTermStep(t) ==
    /\ Running(t, "parse_term")
    /\ threads' = [threads EXCEPT ![t] = TermAt(@)]
    /\ UNCHANGED g_var_mapping
    /\ Untouched

ParseFactorStep(t) ==
    /\ Running(t, "parse_factor")
    /\ threads' = [threads EXCEPT ![t] = FactorAt(@, g_var_mapping, host)]
    /\ UNCHANGED g_var_mapping
    /\ Untouched

\* int result = parse_expression(&p); return result;
ReturnResult(t) ==
    /\ threads[t].pc = "parsing"
    /\ threads[t].stack = <<>>
    /\ threads' = [threads EXCEPT ![t] =
                       [@ EXCEPT !.pc = "returned", !.result = threads[t].value]]
    /\ UNCHANGED g_var_mapping
    /\ Untouched

StepNext ==
    \/ \E t \in DOMAIN threads : EnterEvaluate(t)
    \/ \E t \in DOMAIN threads : ParseExpressionStep(t)
    \/ \E t \in DOMAIN threads : ParseTermStep(t)
    \/ \E t \in DOMAIN threads : ParseFactorStep(t)
    \/ \E t \in DOMAIN threads : ReturnResult(t)

\* The calls a caller may make on a text.
EntryCalls(text) ==
    {[entry |-> "evaluate_boolean_expression", mapping |-> <<>>]}
    \cup {[entry |-> "evaluate_expr_with_mapping", mapping |-> m] :
           m \in Mappings(text)}

ThreadsOn(texts, h) ==
    UNION {{Called(text, behind, c.entry, c.mapping) :
            behind \in (IF h = "solver" THEN AfterNul ELSE {<<>>}),
            c \in EntryCalls(text)} : text \in texts}

\* Nothing has run: the table is all zero and no whole call was made.
NothingCalled ==
    /\ host \in Hosts
    /\ expr = <<>>
    /\ after = <<>>
    /\ g_var_mapping = AllFalse
    /\ call = "none"
    /\ returned = <<>>
    /\ stderr = 0
    /\ header = <<>>
    /\ rows = <<>>
    /\ calls = 0

\* One call, step by step.
ParseInit ==
    /\ NothingCalled
    /\ threads \in {<<th>> : th \in ThreadsOn(ShortTexts, host)}

ParseSpec == ParseInit /\ [][StepNext]_vars

\* The thread that runs the call is scheduled until the call returns.
FairParseSpec == ParseSpec /\ WF_vars(StepNext)

\* The table a call installs.
Assignment(th) ==
    IF th.entry = "evaluate_boolean_expression" THEN AllTrue ELSE th.mapping

ConcTexts == {A, NotText(B), OrText(A, B)}

\* Two calls in two threads of one process, on different texts under
\* different assignments, their steps interleaved in any order.
ConcInit ==
    /\ NothingCalled
    /\ threads \in {<<a, b>> : a \in ThreadsOn(ConcTexts, host),
                               b \in ThreadsOn(ConcTexts, host)}
    /\ threads[1].text # threads[2].text
    /\ Assignment(threads[1]) # Assignment(threads[2])

ConcSpec == ConcInit /\ [][StepNext]_vars

(***************************************************************************)
(* Vocabulary of the properties.                                           *)
(***************************************************************************)
Evaluated ==
    call \in {"evaluate_boolean_expression", "evaluate_expr_with_mapping"}

Tabulated == call = "generate_truth_table"

\* The value the evaluator gives a text on its own, under the table the
\* last call installed.
ValueOf(text) ==
    evaluate_expr_with_mapping(host, Buffer(text, <<>>), g_var_mapping, g_var_mapping).result

Results == [k \in 1 .. Len(rows) |-> rows[k].result]

Count(text, ch) == Cardinality({k \in 1 .. Len(text) : text[k] = ch})

\* More '(' than ')': some '(' has no ')' of its own.
UnmatchedOpen(text) == Count(text, LPAREN) > Count(text, RPAREN)

\* The first character that is not whitespace (NUL for none).
LeadChar(text) == Deref(Buffer(text, <<>>), skip_whitespace(Buffer(text, <<>>), 0))

StartsFactor(c) == c = BANG \/ c = LPAREN \/ isdigit(c) \/ isalpha(c)

\* No result came back and the failure was reported.
ParseFailed == returned = <<>> /\ stderr > 0

(***************************************************************************)
(* C1.  The middle dot is conjunction: for factors X and Y, "X · Y"        *)
(* evaluates to X AND Y under every assignment; the table of "A · B" has   *)
(* the results 0, 0, 0, 1 and "1 · 0" evaluates to 0.                      *)
(***************************************************************************)
C1_MiddleDotIsConjunction ==
    /\ \A X \in Factors, Y \in Factors :
           (Evaluated /\ expr = AndText(X, Y))
               => returned = <<AndValue(ValueOf(X), ValueOf(Y))>>
    /\ (Tabulated /\ expr = AndText(A, B)) => Results = <<0, 0, 0, 1>>
    /\ (Evaluated /\ expr = AndText(<<ONE>>, <<ZERO>>)) => returned = <<0>>

(***************************************************************************)
(* C2.  AND binds tighter than OR: under every assignment of A, B and C,   *)
(* the all-true default included, "A + B · C" evaluates to the value of    *)
(* "A + (B · C)".                                                          *)
(***************************************************************************)
C2_AndBindsTighterThanOr ==
    (Evaluated /\ expr = OrText(A, AndText(B, C)))
        => returned = <<ValueOf(OrText(A, GroupText(AndText(B, C))))>>

C2_Witness ==
    /\ call = "evaluate_expr_with_mapping"
    /\ expr = OrText(A, AndText(B, C))
    /\ g_var_mapping[UPPER_A] = 0
    /\ g_var_mapping[UPPER_B] = 1
    /\ g_var_mapping[UPPER_C] = 0
    /\ returned = <<1>>

(***************************************************************************)
(* C3.  A text with an unmatched '(' , such as "(A · B", is a parse        *)
(* failure: the evaluation ends in an error and returns no result.         *)
(***************************************************************************)
C3_UnmatchedParenFails ==
    (Evaluated /\ UnmatchedOpen(expr)) => ParseFailed

(***************************************************************************)
(* C4.  Where a factor is expected and the next character that is not      *)
(* whitespace starts none ('$', the end of the text), the parse fails with *)
(* an error: the character is not skipped and the factor is not given the  *)
(* value 0.  The cases stated are a text that starts with no factor, and   *)
(* the texts "A $ B" and "A +".                                            *)
(***************************************************************************)
C4_UnrecognizedFails ==
    (/\ Evaluated
     /\ \/ ~StartsFactor(LeadChar(expr))
        \/ expr = <<UPPER_A, SP, DOLLAR, SP, UPPER_B>>
        \/ expr = <<UPPER_A, SP, PLUS>>)
        => ParseFailed

(***************************************************************************)
(* Vocabulary of the table properties.                                     *)
(***************************************************************************)
Letters == (UPPER_A .. UPPER_Z) \cup (LOWER_A .. LOWER_Z)

LettersOf(text) == Occurring(text) \cap Letters

FirstIndex(text, ch) ==
    CHOOSE k \in 1 .. Len(text) : text[k] = ch /\ \A m \in 1 .. (k - 1) : text[m] # ch

RECURSIVE Halved(_, _)
Halved(i, times) == IF times = 0 THEN i ELSE Halved(i \div 2, times - 1)

\* Bit k of i, bit 0 the least significant.
BitOf(i, k) == Halved(i, k) % 2

(***************************************************************************)
(* C5.  For a text with n distinct letters, n from 0 to 52, the table has  *)
(* exactly 2^n rows and no two rows carry the same assignment.  (No        *)
(* sequence of rows has 2^n elements for n of 31 or more.)                 *)
(***************************************************************************)
C5_TwoToTheNRows ==
    Tabulated =>
        LET n == Cardinality(LettersOf(expr))
        IN  /\ n < INT_BITS - 1
            /\ Len(rows) = 2 ^ n
            /\ \A a \in 1 .. Len(rows), b \in 1 .. Len(rows) :
                   a # b => rows[a].cells # rows[b].cells

(***************************************************************************)
(* C6.  The rows are printed for i = 0, 1, ..., 2^n - 1 in this order, and *)
(* in row i the j-th variable (0-based, first occurrence first) has bit    *)
(* n-1-j of i: the first row is all false, the last row all true, the      *)
(* first variable the most significant bit.                                *)
(***************************************************************************)
C6_RowsCountInBinary ==
    Tabulated =>
        LET n == Len(header)
        IN  /\ Len(rows) > 0
            /\ \A k \in 1 .. Len(rows) :
                   /\ rows[k].i = k - 1
                   /\ \A j \in 0 .. (n - 1) : rows[k].cells[j + 1] = BitOf(k - 1, n - 1 - j)
            /\ \A j \in 1 .. n : rows[1].cells[j] = 0 /\ rows[Len(rows)].cells[j] = 1

(***************************************************************************)
(* C7.  The columns of the table are the letters of the text, each once,   *)
(* upper and lower case apart, ordered by first occurrence in the text.    *)
(***************************************************************************)
C7_ColumnsInFirstOccurrenceOrder ==
    Tabulated =>
        /\ {header[j] : j \in 1 .. Len(header)} = LettersOf(expr)
        /\ \A a \in 1 .. Len(header), b \in 1 .. Len(header) :
               a < b => FirstIndex(expr, header[a]) < FirstIndex(expr, header[b])

C7_Witness ==
    /\ Tabulated
    /\ expr = OrText(<<LOWER_A>>, OrText(B, OrText(A, <<LOWER_A>>)))
    /\ header = <<LOWER_A, UPPER_B, UPPER_A>>

(***************************************************************************)
(* C8.  For a text without letters the table has no variable column and    *)
(* exactly one row, whose result is what evaluate_boolean_expression       *)
(* returns for the same text.                                              *)
(***************************************************************************)
C8_ConstantTextHasOneRow ==
    (Tabulated /\ LettersOf(expr) = {})
        => /\ header = <<>>
           /\ Len(rows) = 1
           /\ rows[1].cells = <<>>
           /\ rows[1].result = evaluate_boolean_expression(host, buffer, g_var_mapping).result

C8_Witness ==
    /\ Tabulated
    /\ expr = AndText(<<ONE>>, <<ZERO>>)
    /\ header = <<>>
    /\ Len(rows) = 1

(***************************************************************************)
(* C9.  evaluate_boolean_expression evaluates with every letter true,      *)
(* whatever the table held before the call; "A + B" evaluates to 1.        *)
(***************************************************************************)
PriorTables == {AllFalse, AllTrue} \cup Mappings(expr)

C9_EveryLetterTrue ==
    call = "evaluate_boolean_expression" =>
        /\ \A prior \in PriorTables :
               returned = <<evaluate_boolean_expression(host, buffer, prior).result>>
        /\ returned = <<evaluate_expr_with_mapping(host, buffer, g_var_mapping, AllTrue).result>>
        /\ \A c \in LetterCodes : g_var_mapping[c] = 1
        /\ expr = OrText(A, B) => returned = <<1>>

C9_Witness ==
    /\ call = "evaluate_boolean_expression"
    /\ expr = OrText(A, B)
    /\ returned = <<1>>

(***************************************************************************)
(* C10.  Under a table of zeros and ones both entry points return 0 or 1,  *)
(* for every text: the only literals are 0 and 1.                          *)
(***************************************************************************)
C10_ReturnsZeroOrOne ==
    Evaluated => returned \in {<<0>>, <<1>>}




(***************************************************************************)
(* C11.  Two evaluations that run concurrently on different texts under    *)
(* different assignments, their steps interleaved in any order, each       *)
(* return what their own call returns when it runs alone.                  *)
(***************************************************************************)
\* The same call on the same buffer, run alone from start to end.
Alone(th) ==
    IF th.entry = "evaluate_boolean_expression"
    THEN evaluate_boolean_expression(host, ThreadBuffer(th), AllFalse)
    ELSE evaluate_expr_with_mapping(host, ThreadBuffer(th), AllFalse, th.mapping)

C11_EachReturnsItsOwnResult ==
    \A t \in DOMAIN threads :
        threads[t].pc = "returned" => threads[t].result = Alone(threads[t]).result

(***************************************************************************)
(* C12.  The core is stateless between calls: after any sequence of calls  *)
(* of evaluate_boolean_expression, evaluate_expr_with_mapping and          *)
(* generate_truth_table, what a call returns or prints is what the same    *)
(* call on the same arguments gives as the first call of the process,      *)
(* when the table is still all zero.                                       *)
(***************************************************************************)
Printed(table) ==
    [k \in 1 .. Len(table) |->
        [i |-> table[k].i, cells |-> table[k].cells, result |-> table[k].result]]

\* evaluate_expr_with_mapping leaves its argument in the table, so the
\* table after the call names the mapping that was passed.
C12_SameAsFirstCall ==
    /\ call = "evaluate_boolean_expression" =>
           returned = <<evaluate_boolean_expression(host, buffer, AllFalse).result>>
    /\ call = "evaluate_expr_with_mapping" =>
           returned = <<evaluate_expr_with_mapping(host, buffer, AllFalse,
                                                   g_var_mapping).result>>
    /\ call = "generate_truth_table" =>
           /\ header = ScanVariables(buffer, 0, <<>>)
           /\ \E total_rows \in TotalRows(Len(header)) :
                  rows = Printed(TableRows(host, buffer, AllFalse, header,
                                           total_rows, 0))

C12_Witness ==
    /\ calls > 1
    /\ call = "evaluate_expr_with_mapping"
    /\ expr = OrText(A, B)
    /\ g_var_mapping[UPPER_A] = 0
    /\ g_var_mapping[UPPER_B] = 0
    /\ returned = <<0>>

(***************************************************************************)
(* C13.  De Morgan's law: for all operands e1 and e2 and every assignment, *)
(* "!(e1 · e2)" evaluates to the value of "!e1 + !e2".                     *)
(***************************************************************************)
C13_DeMorgan ==
    \A e1 \in Operands, e2 \in Operands :
        (Evaluated /\ expr = NotOfAnd(e1, e2))
            => returned = <<ValueOf(OrOfNots(e1, e2))>>

(***************************************************************************)
(* C14.  Under A = false, B = false, C = true the texts "A + B · C" and    *)
(* "A + (B · C)" evaluate to true and "(A + B) · C" evaluates to false.    *)
(***************************************************************************)
OnlyCTrue ==
    /\ call = "evaluate_expr_with_mapping"
    /\ g_var_mapping[UPPER_A] = 0
    /\ g_var_mapping[UPPER_B] = 0
    /\ g_var_mapping[UPPER_C] = 1

AndInsideOr == {OrText(A, AndText(B, C)), OrText(A, GroupText(AndText(B, C)))}

AndOutsideOr == AndText(GroupText(OrText(A, B)), C)

C14_TrueTrueFalse ==
    OnlyCTrue =>
        /\ expr \in AndInsideOr => returned = <<1>>
        /\ expr = AndOutsideOr => returned = <<0>>

(***************************************************************************)
(* C14, amended.  Under A = false, B = false, C = true all three texts,    *)
(* "A + B · C", "A + (B · C)" and "(A + B) · C", evaluate to false.        *)
(***************************************************************************)
C14_AllThreeFalse ==
    (OnlyCTrue /\ expr \in AndInsideOr \cup {AndOutsideOr}) => returned = <<0>>

C14_Witness ==
    /\ OnlyCTrue
    /\ expr = OrText(A, GroupText(AndText(B, C)))
    /\ returned = <<0>>


(***************************************************************************)
(* C15.  In every state of a parse the cursor is between 0 and the length  *)
(* of the text: no step moves it past the terminating NUL, whatever the    *)
(* text, the empty text and texts that end where a factor is expected      *)
(* ("A +", "!", "(") included.                                             *)
(***************************************************************************)
C15_CursorWithinText ==
    \A t \in DOMAIN threads :
        threads[t].p >= 0 /\ threads[t].p <= Len(threads[t].text)

(***************************************************************************)
(* C16.  The two C hosts are equivalent: whatever evaluate_boolean_-       *)
(* expression or evaluate_expr_with_mapping returns in one host, the same  *)
(* call on the same text and mapping returns in the other.                 *)
(***************************************************************************)
OtherHost == CHOOSE h \in Hosts : h # host

InOtherHost ==
    IF call = "evaluate_boolean_expression"
    THEN evaluate_boolean_expression(OtherHost, buffer, g_var_mapping).result
    ELSE evaluate_expr_with_mapping(OtherHost, buffer, g_var_mapping, g_var_mapping).result

C16_HostsAgree == Evaluated => returned = <<InOtherHost>>

(***************************************************************************)
(* C17.  generateTruthTable of script.js lists the variable columns that   *)
(* generate_truth_table of the C hosts lists, in the same order (first     *)
(* occurrence in the text), and as many rows, one row for a text without   *)
(* variables included.                                                     *)
(***************************************************************************)
RowsPrinted(total_rows) == IF total_rows > 0 THEN total_rows ELSE 0

C17_ScriptTableMatchesHosts ==
    call = "generateTruthTable" =>
        \E found \in {ScanVariables(buffer, 0, <<>>)} :
            /\ header = found
            /\ \E total_rows \in TotalRows(Len(found)) :
                   Len(rows) = RowsPrinted(total_rows)




(***************************************************************************)
(* C18.  The parse ends after one pass from left to right: no step moves   *)
(* the cursor backwards, every step that enters the body of the '+' or the *)
(* '·' loop and every step that descends through '!' or '(' moves it       *)
(* forward by at least one character, and the call returns in the end.     *)
(***************************************************************************)
\* The step makes the function on top of t's stack call another one.
Calls(t) == Len(threads'[t].stack) > Len(threads[t].stack)

\* parse_expression or parse_term goes round its loop once more.
IteratesLoop(t) ==
    /\ Running(t, "parse_expression") \/ Running(t, "parse_term")
    /\ Top(threads[t]).at \in {"first", "rhs"}
    /\ Calls(t)

\* parse_factor descends through '!' or '('.
DescendsFromFactor(t) == Running(t, "parse_factor") /\ Calls(t)

CursorMovesOn ==
    \A t \in DOMAIN threads :
        /\ threads'[t].p >= threads[t].p
        /\ (IteratesLoop(t) \/ DescendsFromFactor(t)) => threads'[t].p > threads[t].p

AllReturned == \A t \in DOMAIN threads : threads[t].pc = "returned"

C18_EndsAfterOnePass == [][CursorMovesOn]_vars /\ <>AllReturned

C18_Witness ==
    \E t \in DOMAIN threads :
        /\ threads[t].pc = "returned"
        /\ threads[t].text = NotsAndGroup
        /\ threads[t].p = Len(threads[t].text)

====
